---- MODULE Spec2Model ----
(***************************************************************************)
(* A model of rerank_server_demo.py: the module-level model loading, the   *)
(* creation of the FastAPI application, the uvicorn server, the            *)
(* POST /rerank handler (rerank_endpoint) and the GET / handler            *)
(* (read_root).                                                            *)
(*                                                                         *)
(* rerank_endpoint is a plain `def`, which FastAPI runs on a worker thread *)
(* of its thread pool; each connection of the model is one such thread.    *)
(* The handler is split where another thread can be scheduled: entry       *)
(* (validation, line 74 and the entry of torch.no_grad()), the             *)
(* tokenize-and-forward-pass section (lines 77-86) and the construction,   *)
(* sort and return of the results (lines 89-109).                          *)
(*                                                                         *)
(* Strings of a JSON body are tagged values, so that a malformed body can  *)
(* be told from a well-formed one.  Scores are finite floats; the model    *)
(* keeps their order and equality and nothing else, so they are integers.  *)
(***************************************************************************)
EXTENDS Integers, Sequences, FiniteSets, TLC

\* ---------------------------------------------------------------- bounds
\* The most connections (worker threads) handling requests at a time.
MaxConns == 2
\* The longest documents list a client sends.
MaxDocs == 2
\* Scores range over 0..MaxScore.
MaxScore == 1
\* The most logits per pair (config.num_labels) of a model found on disk.
MaxLabels == 2

Conns == 1..MaxConns
Scores == 0..MaxScore
Queries == {"q"}
Docs == {"a", "b"}

VARIABLES
    env,        \* what the process finds around it: CUDA, the files at model_path
    pool,       \* the worker threads that run rerank_endpoint
    phase,      \* position of the module-level code
    stdout,     \* the lines printed so far
    device,     \* module global `device`
    tokenizer,  \* module global `tokenizer`
    model,      \* module global `model`
    loadCount,  \* how many times the loading block (lines 45-56) has run
    app,        \* module global `app`
    pc,         \* per connection: position inside rerank_endpoint
    body,       \* per connection: the JSON body of its current request
    grad,       \* per connection: the thread's gradient mode (torch.no_grad)
    pairs,      \* per connection: local `pairs`
    scores,     \* per connection: local `scores`
    resp,       \* per connection: the response sent for its current request
    rootResp    \* the last response of GET /

vars == <<env, pool, phase, stdout, device, tokenizer, model, loadCount, app,
          pc, body, grad, pairs, scores, resp, rootResp>>

\* ------------------------------------------------------------ JSON values
Str(s) == [t |-> "str", v |-> s]
Num == [t |-> "num", v |-> "5"]
Missing == [t |-> "missing", v |-> ""]
List(xs) == [t |-> "list", v |-> xs]

RECURSIVE SeqsUpTo(_, _)
SeqsUpTo(S, n) ==
    IF n = 0 THEN {<<>>}
    ELSE LET shorter == SeqsUpTo(S, n - 1)
         IN  shorter \cup {Append(s, x) : s \in {t \in shorter : Len(t) = n - 1}, x \in S}

\* Bodies that carry a query string and a list of document strings.
WellFormedBodies ==
    {[query |-> Str(q), documents |-> List(ds)] :
        q \in Queries, ds \in SeqsUpTo({Str(d) : d \in Docs}, MaxDocs)}

\* Query missing or not a string; documents missing, not a list, or a list
\* holding something that is not a string.
MalformedBodies ==
    { [query |-> Missing, documents |-> List(<<Str("a")>>)],
      [query |-> Num, documents |-> List(<<Str("a")>>)],
      [query |-> Str("q"), documents |-> Missing],
      [query |-> Str("q"), documents |-> Str("a")],
      [query |-> Str("q"), documents |-> List(<<Str("a"), Num>>)] }

Bodies == WellFormedBodies \cup MalformedBodies

NoBody == [query |-> Missing, documents |-> Missing]

\* class RerankRequest(BaseModel): query: str; documents: List[str]
IsStr(x) == x.t = "str"

\* A validation that does not look inside the documents list.
RerankRequestNoElementCheck(b) ==
    /\ IsStr(b.query)
    /\ b.documents.t = "list"

RerankRequest(b) ==
    /\ IsStr(b.query)
    /\ b.documents.t = "list"
    /\ \A i \in 1..Len(b.documents.v) : IsStr(b.documents.v[i])

\* request.query and request.documents of a validated body.
Query(b) == b.query.v
Documents(b) ==
    IF b.documents.t = "list"
    THEN [i \in 1..Len(b.documents.v) |-> b.documents.v[i].v]
    ELSE <<>>

\* ------------------------------------------------------------ environment
\* The weights of a sequence-classification model: a logit for every
\* (query, document) pair and label.
AllPairs == {<<q, d>> : q \in Queries, d \in Docs}
Weights(nl) == [AllPairs \X (1..nl) -> Scores]
ZeroWeights == [x \in AllPairs \X {1} |-> 0]


\* model_path holds a loadable tokenizer and model, or misses one of them.
ModelFiles ==
    {[state |-> "ok", numLabels |-> nl, weights |-> w] :
        <<nl, w>> \in UNION {{<<k, x>> : x \in Weights(k)} : k \in 1..MaxLabels}}
    \cup {[state |-> s, numLabels |-> 1, weights |-> ZeroWeights] :
            s \in {"no_tokenizer", "no_model"}}

Envs == {[cuda |-> c, files |-> f] : c \in BOOLEAN, f \in ModelFiles}

\* A reranker proper: one logit per pair, document "b" scored above "a".
RerankerWeights ==
    [x \in AllPairs \X {1} |-> IF x[1][2] = "b" THEN MaxScore ELSE 0]

\* The deployments of that reranker on a host without CUDA, and those whose
\* files cannot be loaded.
RerankerEnvs ==
    {e \in Envs : /\ ~e.cuda
                  /\ e.files.state = "ok" => /\ e.files.numLabels = 1
                                             /\ e.files.weights = RerankerWeights}

\* ------------------------------------------------------------------ state
NoModel == [loaded |-> FALSE, device |-> "none", mode |-> "none",
            numLabels |-> 1, weights |-> ZeroWeights]

\* AutoModelForSequenceClassification.from_pretrained; model.to; model.eval
LoadedModel(e, dev) ==
    [loaded |-> TRUE, device |-> dev, mode |-> "eval",
     numLabels |-> e.files.numLabels, weights |-> e.files.weights]

\* torch.device("cuda" if torch.cuda.is_available() else "cpu")
Device(e) == IF e.cuda THEN "cuda" ELSE "cpu"

NoResp == [status |-> 0, results |-> <<>>]

InitWith(envs, threads) ==
    /\ env \in envs
    /\ pool = threads
    /\ phase = "init"
    /\ stdout = <<>>
    /\ device = "none"
    /\ tokenizer = "none"
    /\ model = NoModel
    /\ loadCount = 0
    /\ app = "none"
    /\ pc = [c \in threads |-> "idle"]
    /\ body = [c \in threads |-> NoBody]
    /\ grad = [c \in threads |-> TRUE]
    /\ pairs = [c \in threads |-> <<>>]
    /\ scores = [c \in threads |-> <<>>]
    /\ resp = [c \in threads |-> NoResp]
    /\ rootResp = "none"

\* One worker thread, any model on disk.
Init == InitWith(Envs, {1})

\* Several worker threads, a reranker on disk, no CUDA.
InitConc == InitWith(RerankerEnvs, Conns)

conn == <<pc, body, grad, pairs, scores, resp>>
globals == <<device, tokenizer, model, loadCount>>

\* ------------------------------------------------- module-level code 42-56
\* The try block runs to its end.
LoadOk ==
    /\ phase = "init"
    /\ env.files.state = "ok"
    /\ device' = Device(env)
    /\ tokenizer' = "loaded"
    /\ model' = LoadedModel(env, Device(env))
    /\ loadCount' = loadCount + 1
    /\ stdout' = stdout \o <<"Loading model, please wait...", "Device in use",
                             "Model loaded successfully!">>
    /\ phase' = "loaded"
    /\ UNCHANGED <<env, pool, app, conn, rootResp>>

\* The handler of the except clause without its exit().
LoadFailNoExit ==
    /\ phase = "init"
    /\ env.files.state # "ok"
    /\ device' = Device(env)
    /\ tokenizer' = IF env.files.state = "no_tokenizer" THEN "none" ELSE "loaded"
    /\ model' = NoModel
    /\ loadCount' = loadCount + 1
    /\ stdout' = stdout \o <<"Loading model, please wait...", "Device in use",
                             "Model loading failed">>
    /\ phase' = "loaded"
    /\ UNCHANGED <<env, pool, app, conn, rootResp>>

\* from_pretrained raises: the except clause prints and calls exit().
LoadFail ==
    /\ phase = "init"
    /\ env.files.state # "ok"
    /\ device' = Device(env)
    /\ tokenizer' = IF env.files.state = "no_tokenizer" THEN "none" ELSE "loaded"
    /\ model' = NoModel
    /\ loadCount' = loadCount + 1
    /\ stdout' = stdout \o <<"Loading model, please wait...", "Device in use",
                             "Model loading failed">>
    /\ phase' = "exited"
    /\ UNCHANGED <<env, pool, app, conn, rootResp>>

\* app = FastAPI(...) and the registration of the two routes.
CreateApp ==
    /\ phase = "loaded"
    /\ app' = "Reranker API (Test Version)"
    /\ phase' = "app"
    /\ UNCHANGED <<env, pool, stdout, globals, conn, rootResp>>

\* uvicorn.run(app, host="0.0.0.0", port=8000)
UvicornRun ==
    /\ phase = "app"
    /\ phase' = "serving"
    /\ UNCHANGED <<env, pool, stdout, globals, app, conn, rootResp>>

\* ------------------------------------------------------- the forward pass
\* pairs = [[request.query, doc] for doc in request.documents]
Pairs(query, documents) == [i \in 1..Len(documents) |-> <<query, documents[i]>>]

\* The logit the model gives a pair for a label.
Logit(m, pair, label) ==
    IF <<pair, label>> \in DOMAIN m.weights THEN m.weights[<<pair, label>>] ELSE 0

\* A forward pass that scores the batch back to front.
ForwardPassReversed(m, ps) ==
    [k \in 1..(Len(ps) * m.numLabels) |->
        Logit(m, ps[Len(ps) - ((k - 1) \div m.numLabels)], ((k - 1) % m.numLabels) + 1)]

\* model(**inputs).logits.view(-1).float(): the [len(pairs), num_labels]
\* logits, flattened row by row.
ForwardPass(m, ps) ==
    [k \in 1..(Len(ps) * m.numLabels) |->
        Logit(m, ps[((k - 1) \div m.numLabels) + 1], ((k - 1) % m.numLabels) + 1)]

\* What the tokenizer and the model do with a batch of no pairs is the
\* library's affair: the call raises, or it yields no logits.
EmptyBatchOutcomes == {"raises", "empty"}

\* ------------------------------------------------------- results and sort
Min(a, b) == IF a < b THEN a ELSE b

TestRankResult(i, text, score_val) ==
    [index |-> i, document |-> [text |-> text], score |-> score_val]

\* One result per score, whatever the number of documents.
ResultsPerScore(documents, sc) ==
    [k \in 1..(IF Len(documents) = 0 THEN 0 ELSE Len(sc)) |->
        TestRankResult(k - 1, documents[((k - 1) % Len(documents)) + 1], sc[k])]

\* Results numbered from 1.
ResultsOneBased(documents, sc) ==
    [k \in 1..Min(Len(documents), Len(sc)) |-> TestRankResult(k, documents[k], sc[k])]

\* for i, (text, score_val) in enumerate(zip(request.documents, scores)):
\* zip stops at the shorter of the two, enumerate counts from 0.
Results(documents, sc) ==
    [k \in 1..Min(Len(documents), Len(sc)) |-> TestRankResult(k - 1, documents[k], sc[k])]

Reverse(s) == [k \in 1..Len(s) |-> s[Len(s) + 1 - k]]

\* x put behind every element whose score is not greater than its own.
RECURSIVE InsertAsc(_, _)
InsertAsc(s, x) ==
    IF s = <<>> THEN <<x>>
    ELSE IF s[Len(s)].score <= x.score THEN Append(s, x)
    ELSE Append(InsertAsc(SubSeq(s, 1, Len(s) - 1), x), s[Len(s)])

\* The stable ascending sort of list.sort.
RECURSIVE StableSortAsc(_)
StableSortAsc(s) ==
    IF s = <<>> THEN <<>>
    ELSE InsertAsc(StableSortAsc(SubSeq(s, 1, Len(s) - 1)), s[Len(s)])

\* The ascending sort: reverse=True left out.
SortedAscending(rs) == StableSortAsc(rs)

\* The ascending sort turned round: descending, ties turned round with it.
SortedThenReversed(rs) == Reverse(StableSortAsc(rs))

\* sorted(results, key=lambda x: x.score, reverse=True): the list is
\* reversed, sorted stably in ascending order and reversed again.
Sorted(rs) == Reverse(StableSortAsc(Reverse(rs)))

\* --------------------------------------------------------- POST /rerank
\* Request validation and, for a valid body, the entry of rerank_endpoint
\* on worker thread c: line 74 and the entry of torch.no_grad().
PostRerank(c, b) ==
    /\ phase = "serving"
    /\ pc[c] = "idle"
    /\ body' = [body EXCEPT ![c] = b]
    /\ scores' = [scores EXCEPT ![c] = <<>>]
    /\ IF RerankRequest(b)
       THEN /\ pairs' = [pairs EXCEPT ![c] = Pairs(Query(b), Documents(b))]
            /\ grad' = [grad EXCEPT ![c] = FALSE]
            /\ pc' = [pc EXCEPT ![c] = "inference"]
            /\ resp' = [resp EXCEPT ![c] = NoResp]
       ELSE /\ pairs' = [pairs EXCEPT ![c] = <<>>]
            /\ resp' = [resp EXCEPT ![c] = [status |-> 422, results |-> <<>>]]
            /\ UNCHANGED <<grad, pc>>
    /\ UNCHANGED <<env, pool, phase, stdout, globals, app, rootResp>>

\* An inference that leaves the model in training mode.
InferenceTrains(c) ==
    /\ phase = "serving"
    /\ pc[c] = "inference"
    /\ pairs[c] # <<>>
    /\ scores' = [scores EXCEPT ![c] = ForwardPass(model, pairs[c])]
    /\ model' = [model EXCEPT !.mode = "train"]
    /\ pc' = [pc EXCEPT ![c] = "build"]
    /\ grad' = [grad EXCEPT ![c] = TRUE]
    /\ UNCHANGED <<env, pool, phase, stdout, device, tokenizer, loadCount, app,
                   body, pairs, resp, rootResp>>

\* An inference that keeps its scores where every thread reads them.
InferenceShared(c) ==
    /\ phase = "serving"
    /\ pc[c] = "inference"
    /\ pairs[c] # <<>>
    /\ scores' = [k \in pool |-> ForwardPass(model, pairs[c])]
    /\ pc' = [pc EXCEPT ![c] = "build"]
    /\ grad' = [grad EXCEPT ![c] = TRUE]
    /\ UNCHANGED <<env, pool, phase, stdout, globals, app, body, pairs, resp, rootResp>>

\* Lines 77-86 on a batch of at least one pair; leaving the with block
\* restores the thread's gradient mode.
Inference(c) ==
    /\ phase = "serving"
    /\ pc[c] = "inference"
    /\ pairs[c] # <<>>
    /\ scores' = [scores EXCEPT ![c] = ForwardPass(model, pairs[c])]
    /\ pc' = [pc EXCEPT ![c] = "build"]
    /\ grad' = [grad EXCEPT ![c] = TRUE]
    /\ UNCHANGED <<env, pool, phase, stdout, globals, app, body, pairs, resp, rootResp>>

\* Lines 77-86 on a batch of no pairs.  When the call raises, the with
\* block still restores the gradient mode and the framework answers 500.
InferenceEmpty(c, outcome) ==
    /\ phase = "serving"
    /\ pc[c] = "inference"
    /\ pairs[c] = <<>>
    /\ grad' = [grad EXCEPT ![c] = TRUE]
    /\ scores' = [scores EXCEPT ![c] = <<>>]
    /\ IF outcome = "raises"
       THEN /\ pc' = [pc EXCEPT ![c] = "idle"]
            /\ resp' = [resp EXCEPT ![c] = [status |-> 500, results |-> <<>>]]
       ELSE /\ pc' = [pc EXCEPT ![c] = "build"]
            /\ UNCHANGED resp
    /\ UNCHANGED <<env, pool, phase, stdout, globals, app, body, pairs, rootResp>>

\* Lines 89-109: the results are built, sorted and returned.
Respond(c) ==
    /\ phase = "serving"
    /\ pc[c] = "build"
    /\ resp' = [resp EXCEPT ![c] =
                  [status |-> 200,
                   results |-> Sorted(Results(Documents(body[c]), scores[c]))]]
    /\ pc' = [pc EXCEPT ![c] = "idle"]
    /\ UNCHANGED <<env, pool, phase, stdout, globals, app, body, grad, pairs,
                   scores, rootResp>>

\* ----------------------------------------------------------------- GET /
read_root ==
    /\ phase = "serving"
    /\ rootResp' = "Reranker API (Test Version) is running"
    /\ UNCHANGED <<env, pool, phase, stdout, globals, app, conn>>

\* ------------------------------------------------------- specifications
Next ==
    \/ LoadOk
    \/ LoadFail
    \/ CreateApp
    \/ UvicornRun
    \/ \E c \in pool, b \in Bodies : PostRerank(c, b)
    \/ \E c \in pool : Inference(c)
    \/ \E c \in pool, o \in EmptyBatchOutcomes : InferenceEmpty(c, o)
    \/ \E c \in pool : Respond(c)
    \/ read_root

\* One worker thread, any model on disk.
Spec == Init /\ [][Next]_vars

\* Several worker threads, a reranker on disk, no CUDA.
SpecConc == InitConc /\ [][Next]_vars

\* ----------------------------------------------------------------- claims
Answered(c) == resp[c].status = 200
request_documents(c) == Documents(body[c])
request_query(c) == Query(body[c])

\* C1: every response of POST /rerank has exactly as many results as the
\* request has documents.
ResultCountEqualsDocumentCount ==
    \A c \in pool :
        Answered(c) => Len(resp[c].results) = Len(request_documents(c))

\* A response to two documents from a model that emits more logits than
\* there are documents.
ResultCountWitness ==
    \E c \in pool :
        /\ Answered(c)
        /\ Len(request_documents(c)) = 2
        /\ Len(scores[c]) > 2
        /\ Len(resp[c].results) = 2

\* C2: in every response each result's text is the document at the result's
\* index (0-based position in the request), and no two results share an index.
IndexIsOriginalPosition ==
    \A c \in pool :
        Answered(c) =>
            LET rs == resp[c].results
                ds == request_documents(c)
            IN  \A k \in 1..Len(rs) :
                    /\ rs[k].index \in 0..(Len(ds) - 1)
                    /\ rs[k].document.text = ds[rs[k].index + 1]
                    /\ \A j \in 1..Len(rs) : j # k => rs[j].index # rs[k].index

\* A response whose sort has moved the second of two different documents
\* to the front.
IndexWitness ==
    \E c \in pool :
        /\ Answered(c)
        /\ request_documents(c) = <<"a", "b">>
        /\ Len(resp[c].results) = 2
        /\ resp[c].results[1].index = 1
        /\ resp[c].results[1].document.text = "b"

\* C3: in every response the results are in descending order of score.
SortedByDescendingScore ==
    \A c \in pool :
        Answered(c) =>
            \A k \in 1..(Len(resp[c].results) - 1) :
                resp[c].results[k].score >= resp[c].results[k + 1].score

\* A response to a request whose scores came in ascending order.
SortedWitness ==
    \E c \in pool :
        /\ Answered(c)
        /\ Len(scores[c]) >= 2
        /\ scores[c][1] < scores[c][2]
        /\ Len(resp[c].results) = 2
        /\ resp[c].results[1].score > resp[c].results[2].score

\* C4: a request with an empty documents list is answered with an empty
\* results list and not with an error.
EmptyDocumentsYieldEmptyResults ==
    \A c \in pool :
        ( /\ body[c] \in WellFormedBodies
          /\ request_documents(c) = <<>>
          /\ resp[c] # NoResp )
        => resp[c] = [status |-> 200, results |-> <<>>]

\* C5: when loading raises, the process prints the failure and ends with
\* no application created and nothing ever served; it loads only once.
LoadFailureTerminates ==
    (env.files.state # "ok" /\ phase # "init") =>
        /\ phase = "exited"
        /\ stdout # <<>>
        /\ stdout[Len(stdout)] = "Model loading failed"
        /\ app = "none"
        /\ ~model.loaded
        /\ loadCount = 1
        /\ rootResp = "none"
        /\ \A c \in pool : pc[c] = "idle" /\ body[c] = NoBody /\ resp[c] = NoResp

\* The process has ended after the tokenizer loaded and the model did not.
LoadFailureWitness ==
    /\ phase = "exited"
    /\ tokenizer = "loaded"
    /\ ~model.loaded
    /\ stdout[Len(stdout)] = "Model loading failed"

\* C6 as stated: at no time are two requests inside the
\* tokenize-and-forward-pass section.
InferenceCallsSerialize ==
    Cardinality({c \in pool : pc[c] = "inference"}) <= 1

\* C6 amended: requests may overlap in the section, but each request's own
\* inference is synchronous: gradient mode is off on its thread exactly
\* while it is in the section, nothing is answered from inside the section,
\* and the scores it builds its results from are those of its own pairs.
InferenceSynchronousPerRequest ==
    \A c \in pool :
        /\ grad[c] = FALSE <=> pc[c] = "inference"
        /\ pc[c] = "inference" => resp[c] = NoResp /\ scores[c] = <<>>
        /\ (pc[c] = "build" \/ Answered(c)) =>
              scores[c] = ForwardPass(model, Pairs(request_query(c), request_documents(c)))

\* One request is building its results while another, for other documents,
\* is inside the section.
OverlapWitness ==
    \E c1, c2 \in pool :
        /\ c1 # c2
        /\ pc[c1] = "build"
        /\ pc[c2] = "inference"
        /\ pairs[c1] # pairs[c2]
        /\ scores[c1] # <<>>

\* C7: the model and tokenizer are loaded once, before anything is served,
\* and no request changes the model, the tokenizer or the device; a thread
\* between requests is in the gradient mode it started in, and equal
\* requests get equal answers.
ModelLoadedOnceAndReadOnly ==
    /\ phase \in {"loaded", "app", "serving"} =>
          /\ loadCount = 1
          /\ tokenizer = "loaded"
          /\ device = Device(env)
          /\ model = LoadedModel(env, Device(env))
    /\ (rootResp # "none" \/ \E c \in pool : body[c] # NoBody) =>
          phase = "serving" /\ model.loaded
    /\ \A c \in pool : pc[c] = "idle" => grad[c]
    /\ \A c1, c2 \in pool :
          (Answered(c1) /\ Answered(c2) /\ body[c1] = body[c2]) => resp[c1] = resp[c2]

\* GET / and a POST /rerank have been answered and a further request has
\* been through the forward pass.
ReadOnlyWitness ==
    \E c1, c2 \in pool :
        /\ c1 # c2
        /\ Answered(c1)
        /\ resp[c1].results # <<>>
        /\ pc[c2] = "build"
        /\ rootResp # "none"

\* C9: a malformed body is answered 422 by validation; the handler is not
\* entered for it, nothing is tokenized or inferred and the shared state
\* stays as loaded.
MalformedBodyRejected ==
    \A c \in pool :
        body[c] \in MalformedBodies =>
            /\ resp[c].status = 422
            /\ pc[c] = "idle"
            /\ grad[c]
            /\ pairs[c] = <<>>
            /\ scores[c] = <<>>
            /\ model = LoadedModel(env, Device(env))
            /\ tokenizer = "loaded"

\* A documents list holding a non-string has been rejected while another
\* request was being handled.
MalformedWitness ==
    \E c1, c2 \in pool :
        /\ body[c1].documents = List(<<Str("a"), Num>>)
        /\ resp[c1].status = 422
        /\ pc[c2] = "build"

\* The score the response gives the document at index i is one of the
\* logits the model has for the pair (query, documents[i]).
ScoreIsALogitOfItsPair(c, r) ==
    /\ r.index \in 0..(Len(request_documents(c)) - 1)
    /\ \E label \in 1..model.numLabels :
          r.score = Logit(model, <<request_query(c), request_documents(c)[r.index + 1]>>, label)

\* C10 as stated: whatever the number of logits per pair, the score of the
\* result with index i is the model's score for the pair (query, documents[i]).
ScoreIsPairScoreForAnyLabels ==
    \A c \in pool :
        Answered(c) =>
            \A k \in 1..Len(resp[c].results) : ScoreIsALogitOfItsPair(c, resp[c].results[k])

\* C10 amended: when the model emits one logit per pair, the score of the
\* result with index i is the model's logit for the pair (query, documents[i]).
ScoreIsPairScoreForOneLabel ==
    \A c \in pool :
        (Answered(c) /\ model.numLabels = 1) =>
            \A k \in 1..Len(resp[c].results) : ScoreIsALogitOfItsPair(c, resp[c].results[k])

\* A one-logit model has answered a request for two documents it scores
\* differently.
PairScoreWitness ==
    \E c \in pool :
        /\ Answered(c)
        /\ model.numLabels = 1
        /\ Len(resp[c].results) = 2
        /\ resp[c].results[1].score # resp[c].results[2].score

\* C8: results with equal scores keep the order of their documents in the
\* request: the smaller index comes first.
TiesKeepRequestOrder ==
    \A c \in pool :
        Answered(c) =>
            \A j, k \in 1..Len(resp[c].results) :
                (j < k /\ resp[c].results[j].score = resp[c].results[k].score)
                => resp[c].results[j].index < resp[c].results[k].index

\* A response holding two results of equal score.
TiesWitness ==
    \E c \in pool :
        /\ Answered(c)
        /\ Len(resp[c].results) = 2
        /\ resp[c].results[1].score = resp[c].results[2].score
        /\ resp[c].results[1].document.text # resp[c].results[2].document.text

====
